---------------------------- MODULE Spec2Model ----------------------------
(***************************************************************************)
(* ConversionQueueService (conversion-queue service of mcp-router) and the *)
(* bundle processor it calls.                                              *)
(*                                                                         *)
(* JavaScript runs every synchronous stretch of code to completion, so one *)
(* action is one such stretch: a public call made by a client, or the      *)
(* continuation of processNext after `await processBundleFile(...)`.       *)
(* Listeners run synchronously inside EventEmitter.emit, so what they do   *)
(* (observe, throw, call enqueue again) is part of the emitting action.    *)
(* createdAt / updatedAt are wall-clock stamps that no decision reads;     *)
(* they are left out of the job record.                                    *)
(***************************************************************************)
EXTENDS Integers, Sequences, FiniteSets, TLC

\* ----------------------------------------------------------------- bounds
\* Number of jobs ever created (enqueue is disabled beyond it).
MaxJobs == 2
\* Number of onUpdate calls clients make.
MaxExt == 2

\* ------------------------------------------------------------------ state
VARIABLES
  jobs,        \* Map<string, ConversionJob>: job id i is jobs[i]
  queue,       \* pending ids, in push order
  processing,  \* the in-flight guard
  listeners,   \* the emitter's listener array for "update", in order
  promises,    \* promise of the enqueueAndWait call that created job i
  active,      \* job ids whose processBundleFile call has not settled
  log,         \* every snapshot handed to emit("update", ...), in order
  armed,       \* closure state of the re-entrant listener
  unhandled,   \* a processNext promise was rejected (nobody awaits it)
  subscribed,  \* onUpdate calls made so far
  calls,       \* job ids processBundleFile was called for, in order
  returned,    \* what the processBundleFile call for job i settled with
  raised       \* job ids whose enqueue call left by an exception

vars == <<jobs, queue, processing, listeners, promises, active, log, armed,
          unhandled, subscribed, calls, returned, raised>>

\* ------------------------------------------------------ bundle-processor
\* Payloads, by what the processor reads of them: the leading bytes and the
\* JSON document (if any) the bytes hold.
\*   "zip"      PK.. archive
\*   "cfg"      {"name":"srv"}
\*   "wrapped"  {"server":{"name":"inner","serverType":"remote"}}
\*   "noname"   {}
\*   "text"     not JSON, not an archive
Files == {"zip", "cfg", "wrapped", "noname", "text"}
FileNames == {"", "a.dxt", "A.MCPB"}

Absent == "absent"

\* Buffer.from(file.slice(0, 64)): the two leading bytes are 'P','K'
IsZip(file) == file = "zip"

\* text.trimStart().startsWith("{")
StartsWithBrace(file) == file \in {"cfg", "wrapped", "noname"}

\* (fileName || "").toLowerCase(), on the names of FileNames
ToLowerCase(name) == IF name = "A.MCPB" THEN "a.mcpb" ELSE name

\* name.endsWith(ext), on the lower-cased names of FileNames
EndsWith(name, ext) ==
  \/ name = "a.dxt" /\ ext = ".dxt"
  \/ name = "a.mcpb" /\ ext = ".mcpb"

detectBundleType(file, fileName) ==
  IF EndsWith(ToLowerCase(fileName), ".dxt") THEN "dxt"
  ELSE IF EndsWith(ToLowerCase(fileName), ".mcpb") THEN "mcpb-json"
  ELSE IF IsZip(file) THEN "dxt"
  ELSE IF StartsWithBrace(file) THEN "mcpb-json"
  ELSE "dxt"

\* A configuration record as JSON.parse yields it; Absent marks a missing key.
RawConfig(name, serverType) ==
  [name |-> name, serverType |-> serverType, env |-> Absent,
   disabled |-> Absent, autoStart |-> Absent, verificationStatus |-> Absent]

\* JSON.parse(Buffer.from(file).toString("utf8")): <<>> when it throws,
\* else <<server, document>> with server = <<>> when the key is missing.
JsonParse(file) ==
  CASE file = "cfg"     -> << <<>>, RawConfig("srv", Absent) >>
    [] file = "wrapped" -> << <<RawConfig("inner", "remote")>>,
                              RawConfig(Absent, Absent) >>
    [] file = "noname"  -> << <<>>, RawConfig(Absent, Absent) >>
    [] OTHER            -> <<>>

Default(v, d) == IF v = Absent THEN d ELSE v

\* An outcome of the processor: ok with a configuration, or an error message.
Ok(config) == [ok |-> TRUE, config |-> <<config>>, message |-> ""]
Throw(message) == [ok |-> FALSE, config |-> <<>>, message |-> message]

processMcpbJson(file) ==
  LET parsed == JsonParse(file) IN
  IF parsed = <<>> THEN Throw("Unexpected token in JSON")
  ELSE
    LET config == IF parsed[1] # <<>> THEN parsed[1][1] ELSE parsed[2] IN
    IF config.name = Absent THEN Throw("Invalid MCPB: missing 'name'")
    ELSE Ok([name |-> config.name,
             serverType |-> Default(config.serverType, "local"),
             env |-> Default(config.env, "{}"),
             disabled |-> Default(config.disabled, "false"),
             autoStart |-> Default(config.autoStart, "false"),
             verificationStatus |->
               Default(config.verificationStatus, "unverified")])

\* dxt-processor is outside the sources: per the external contract it yields
\* a configuration record or raises a descriptive error.
processDxtFile(file) ==
  IF IsZip(file)
    THEN {Ok([name |-> "dxt", serverType |-> "local", env |-> "{}",
              disabled |-> "false", autoStart |-> "false",
              verificationStatus |-> "unverified"]),
          Throw("Invalid DXT manifest")}
    ELSE {Throw("Invalid DXT archive")}

\* The outcomes processBundleFile(file, fileName) can settle with.
processBundleFile(file, fileName) ==
  IF detectBundleType(file, fileName) = "dxt"
    THEN processDxtFile(file)
    ELSE {processMcpbJson(file)}

\* The (file, fileName) pairs clients submit.
Inputs ==
  { <<"cfg", "">>, <<"noname", "A.MCPB">> }

\* ------------------------------------------------- ConversionQueueService
Statuses == {"queued", "processing", "completed", "failed"}
Terminal == {"completed", "failed"}

\* The functions clients pass to onUpdate, by what they do when called:
\* throw on a snapshot of one status and only observe the others; call
\* enqueue once, from inside the callback, on the first "queued" snapshot.
ExtListeners ==
  {[kind |-> "reenq", on |-> "", id |-> 0]}
  \cup {[kind |-> "throw", on |-> st, id |-> 0] : st \in Statuses}

\* The onUpdate closure of the enqueueAndWait call for job id.
Waiter(id) == [kind |-> "wait", on |-> "", id |-> id]

ListenerError == "listener failed"
ReInput == <<"cfg", "">>

NoPromise == [state |-> "none", result |-> <<>>, message |-> ""]
Pending == [state |-> "pending", result |-> <<>>, message |-> ""]

State ==
  [jobs |-> jobs, queue |-> queue, processing |-> processing,
   listeners |-> listeners, promises |-> promises, active |-> active,
   log |-> log, armed |-> armed, unhandled |-> unhandled,
   heard |-> <<>>, calls |-> calls, returned |-> returned,
   raised |-> raised]

\* What a call hands back besides the state: normal return or exception.
Returned(s) == [s |-> s, threw |-> FALSE, message |-> ""]
Thrown(s, message) == [s |-> s, threw |-> TRUE, message |-> message]

\* new job record of enqueue
NewJob(id, input) ==
  [id |-> id, status |-> "queued", progress |-> 0, file |-> input[1],
   fileName |-> input[2], result |-> <<>>, error |-> <<>>]

\* EventEmitter.removeListener: drops the most recently added occurrence
RECURSIVE RemoveListener(_, _)
RemoveListener(ls, l) ==
  IF ls = <<>> THEN <<>>
  ELSE IF ls[Len(ls)] = l THEN SubSeq(ls, 1, Len(ls) - 1)
  ELSE Append(RemoveListener(SubSeq(ls, 1, Len(ls) - 1), l), ls[Len(ls)])

\* resolve / reject settle a promise once
Resolve(p, result) ==
  IF p.state = "pending" THEN [state |-> "resolved", result |-> result, message |-> ""]
  ELSE p
Reject(p, message) ==
  IF p.state = "pending" THEN [state |-> "rejected", result |-> <<>>, message |-> message]
  ELSE p

\* job.id !== id
IsOtherJob(snap, id) == snap.id # id

\* job.error || "Conversion failed"
WaiterMessage(error) ==
  IF error # <<>> /\ error[1] # "" THEN error[1] ELSE "Conversion failed"

\* the onUpdate closure of enqueueAndWait, called with a snapshot
WaiterOnUpdate(s, id, snap) ==
  IF IsOtherJob(snap, id) THEN s
  ELSE IF snap.status = "completed" /\ snap.result # <<>> THEN
    [s EXCEPT !.listeners = RemoveListener(@, Waiter(id)),
              !.promises[id] = Resolve(@, snap.result)]
  ELSE IF snap.status = "failed" THEN
    [s EXCEPT !.listeners = RemoveListener(@, Waiter(id)),
              !.promises[id] = Reject(@, WaiterMessage(snap.error))]
  ELSE s

\* err?.message || String(err), for an Error carrying `message`
ErrText(message) == IF message # "" THEN message ELSE "Error"

\* the guard of processNext left out
DrainInFlightIgnored(s) == FALSE

\* if (this.processing) return;
DrainInFlight(s) == s.processing

\* this.queue.pop() in place of shift()
QueuePop(q) == [id |-> q[Len(q)], rest |-> SubSeq(q, 1, Len(q) - 1)]

\* this.queue.shift()
QueueShift(q) == [id |-> Head(q), rest |-> Tail(q)]

\* the progress set and the status left as it was
MarkProgressOnly(job) == [job EXCEPT !.progress = 5]

\* job.status = "processing"; job.progress = 5
MarkProcessing(job) == [job EXCEPT !.status = "processing", !.progress = 5]

\* job.progress = 50
MarkHalfway(job) == [job EXCEPT !.progress = 50]

\* job.progress = 100; job.status = "completed"; job.result = result
MarkCompleted(job, config) ==
  [job EXCEPT !.progress = 100, !.status = "completed", !.result = config]

\* job.status = "failed"; job.error = err?.message || String(err)
MarkFailed(job, message) ==
  [job EXCEPT !.status = "failed", !.error = <<ErrText(message)>>]

\* the finally block not clearing the guard
GuardKept(s) == s

\* this.processing = false
ClearGuard(s) == [s EXCEPT !.processing = FALSE]

\* the id appended twice
PushTwice(q, id) == Append(Append(q, id), id)

\* this.queue.push(id)
Push(q, id) == Append(q, id)

\* getJob(id): <<>> for undefined, else the copy { ...job }, whose file and
\* result are the stored job's own objects
getJob(s, id) == IF id \in DOMAIN s.jobs THEN <<s.jobs[id]>> ELSE <<>>

RECURSIVE Enqueue(_, _), Deliver(_, _, _, _), ProcessNext(_), Catch(_, _, _)

\* The body of listener l run on a snapshot.
RunListener(s, l, snap) ==
  CASE l.kind = "wait" -> Returned(WaiterOnUpdate(s, l.id, snap))
    [] l.kind = "throw" ->
         IF snap.status = l.on THEN Thrown(s, ListenerError) ELSE Returned(s)
    [] l.kind = "reenq" ->
         IF s.armed /\ snap.status = "queued" /\ Len(s.jobs) < MaxJobs
           THEN LET r == Enqueue([s EXCEPT !.armed = FALSE], ReInput)
                IN  IF r.threw THEN Thrown(r.s, r.message) ELSE Returned(r.s)
           ELSE Returned(s)
    [] OTHER -> Returned(s)

\* emit calls listener l with the snapshot of the k-th emit of the
\* history: the call is noted in heard (the calls made to listeners in
\* the running operation, in order), then the listener runs.
CallListener(s, l, snap, k) ==
  RunListener([s EXCEPT !.heard = Append(@, [to |-> l, at |-> k])], l, snap)

\* emit's loop over its copy of the listener array, for the k-th emit of
\* the history; the first exception ends it and leaves emit.
Deliver(s, ls, snap, k) ==
  IF ls = <<>> THEN Returned(s)
  ELSE LET r == CallListener(s, Head(ls), snap, k)
       IN  IF r.threw THEN r ELSE Deliver(r.s, Tail(ls), snap, k)

\* this.emitter.emit("update", { ...job })
Emit(s, id) ==
  Deliver([s EXCEPT !.log = Append(@, s.jobs[id])], s.listeners, s.jobs[id],
          Len(s.log) + 1)

\* enqueue(file, fileName): the state it leaves, whether it threw, the id
Enqueue(s, input) ==
  LET id == Len(s.jobs) + 1
      s1 == [s EXCEPT !.jobs = Append(@, NewJob(id, input)),
                      !.promises = Append(@, NoPromise),
                      !.queue = Push(@, id)]
      r  == Emit(s1, id)
  IN  IF r.threw
        THEN [s |-> [r.s EXCEPT !.raised = @ \cup {id}], threw |-> TRUE,
              message |-> r.message, id |-> id]
      ELSE [s |-> ProcessNext(r.s), threw |-> FALSE, message |-> "", id |-> id]

\* finally { this.processing = false; void this.processNext(); }
Finally(s) == ProcessNext(ClearGuard(s))

\* catch (err) {...} finally {...}; an exception of the emit in the catch
\* block leaves processNext after the finally block, as a rejected promise.
Catch(s, id, message) ==
  LET s1 == [s EXCEPT !.jobs[id] = MarkFailed(@, message)]
      r  == Emit(s1, id)
  IN  Finally([r.s EXCEPT !.unhandled = @ \/ r.threw])

\* processNext(), up to its await
ProcessNext(s) ==
  IF DrainInFlight(s) THEN s
  ELSE IF s.queue = <<>> THEN s
  ELSE
    LET nextId == QueueShift(s.queue).id
        s1 == [s EXCEPT !.queue = QueueShift(s.queue).rest]
    IN  IF nextId \notin DOMAIN s1.jobs THEN s1
        ELSE
          LET s2 == [s1 EXCEPT !.processing = TRUE,
                               !.jobs[nextId] = MarkProcessing(@)]
              r1 == Emit(s2, nextId)
          IN  IF r1.threw THEN Catch(r1.s, nextId, r1.message)
              ELSE
                LET s3 == [r1.s EXCEPT !.jobs[nextId] = MarkHalfway(@)]
                    r2 == Emit(s3, nextId)
                IN  IF r2.threw THEN Catch(r2.s, nextId, r2.message)
                    ELSE [r2.s EXCEPT !.active = @ \cup {nextId},
                                      !.calls = Append(@, nextId)]

\* processNext() from the await on, once processBundleFile settled
Resume(s, id, outcome) ==
  LET s0 == [s EXCEPT !.active = @ \ {id},
                      !.returned = [i \in DOMAIN @ \cup {id} |->
                                      IF i = id THEN outcome ELSE @[i]]] IN
  IF outcome.ok THEN
    LET s1 == [s0 EXCEPT !.jobs[id] = MarkCompleted(@, outcome.config)]
        r  == Emit(s1, id)
    IN  IF r.threw THEN Catch(r.s, id, r.message) ELSE Finally(r.s)
  ELSE Catch(s0, id, outcome.message)

\* enqueueAndWait(file, fileName): an exception of enqueue rejects the
\* promise of the async function; else the closure is registered.
EnqueueAndWait(s, input) ==
  LET r == Enqueue(s, input) IN
  IF r.threw THEN [r.s EXCEPT !.promises[r.id] = Reject(Pending, r.message)]
  ELSE [r.s EXCEPT !.promises[r.id] = Pending,
                   !.listeners = Append(@, Waiter(r.id))]

\* ---------------------------------------------------------------- actions
Install(s) ==
  /\ jobs' = s.jobs
  /\ queue' = s.queue
  /\ processing' = s.processing
  /\ listeners' = s.listeners
  /\ promises' = s.promises
  /\ active' = s.active
  /\ log' = s.log
  /\ armed' = s.armed
  /\ unhandled' = s.unhandled
  /\ calls' = s.calls
  /\ returned' = s.returned
  /\ raised' = s.raised
  /\ UNCHANGED subscribed

Init ==
  /\ jobs = <<>>
  /\ queue = <<>>
  /\ processing = FALSE
  /\ listeners = <<>>
  /\ promises = <<>>
  /\ active = {}
  /\ log = <<>>
  /\ armed = TRUE
  /\ unhandled = FALSE
  /\ subscribed = 0
  /\ calls = <<>>
  /\ returned = <<>>
  /\ raised = {}

\* a client calls enqueue
EnqueueCall ==
  /\ Len(jobs) < MaxJobs
  /\ \E input \in Inputs : Install(Enqueue(State, input).s)

\* a client calls enqueueAndWait
EnqueueAndWaitCall ==
  /\ Len(jobs) < MaxJobs
  /\ \E input \in Inputs : Install(EnqueueAndWait(State, input))

\* a client calls onUpdate(listener)
OnUpdate ==
  /\ subscribed < MaxExt
  /\ subscribed' = subscribed + 1
  /\ \E l \in ExtListeners : listeners' = Append(listeners, l)
  /\ UNCHANGED <<jobs, queue, processing, promises, active, log, armed, unhandled,
                 calls, returned, raised>>

\* a client calls offUpdate(listener)
OffUpdate ==
  /\ \E l \in ExtListeners :
       /\ \E i \in DOMAIN listeners : listeners[i] = l
       /\ listeners' = RemoveListener(listeners, l)
  /\ UNCHANGED <<jobs, queue, processing, promises, active, log, armed, unhandled,
                 subscribed, calls, returned, raised>>

\* a processBundleFile call settles and processNext runs on
Settle ==
  \E id \in active :
    \E outcome \in processBundleFile(jobs[id].file, jobs[id].fileName) :
      Install(Resume(State, id, outcome))

\* The ids clients look up: the last job's, and one enqueue never made.
LookupIds == {MaxJobs, MaxJobs + 1}

\* a client calls getJob(id)
GetJobCall ==
  /\ UNCHANGED vars
  /\ \E id \in LookupIds : Len(getJob(State, id)) \in {0, 1}

\* a client writes into the result record of a copy it got from getJob:
\* the copy's result is the stored job's result object
MutateCopy ==
  /\ \E id \in LookupIds :
       /\ getJob(State, id) # <<>>
       /\ getJob(State, id)[1].result # <<>>
       /\ jobs' = [jobs EXCEPT ![id].result[1].name = "tampered"]
  /\ UNCHANGED <<queue, processing, listeners, promises, active, log, armed,
                 unhandled, subscribed, calls, returned, raised>>

Next ==
  \/ EnqueueCall
  \/ EnqueueAndWaitCall
  \/ OnUpdate
  \/ OffUpdate
  \/ Settle
  \/ GetJobCall
  \/ MutateCopy

Spec == Init /\ [][Next]_vars

\* the awaited call settles in the end, and its continuation is scheduled
FairSpec == Spec /\ WF_vars(Settle)

\* ------------------------------------------------------------- properties
JobIds == DOMAIN jobs

\* the snapshots broadcast for job i, in order
JobLog(i) == SelectSeq(log, LAMBDA e : e.id = i)

\* C1: at most one job record has status processing, and at most one
\* processBundleFile call has started and not yet settled.
C1_SingleFlight ==
  /\ Cardinality({i \in JobIds : jobs[i].status = "processing"}) <= 1
  /\ Cardinality(active) <= 1

\* a job is in flight while another one, enqueued meanwhile, waits
C1_Witness ==
  \E i \in JobIds :
    /\ jobs[i].status = "processing"
    /\ active = {i}
    /\ processing
    /\ queue # <<>>

\* C2: a job enqueued earlier has its terminal broadcast before the first
\* processing broadcast of a job enqueued later, and terminal broadcasts
\* come in the order of the enqueue calls.
C2_Fifo ==
  /\ \A k \in DOMAIN log :
       log[k].status = "processing" =>
         \A a \in 1 .. (log[k].id - 1) :
           \E m \in 1 .. (k - 1) : log[m].id = a /\ log[m].status \in Terminal
  /\ \A m, k \in DOMAIN log :
       (m < k /\ log[m].status \in Terminal /\ log[k].status \in Terminal)
         => log[m].id <= log[k].id

\* job 2 was enqueued while job 1 was in flight, and was taken after it
C2_Witness ==
  \E i, j, k \in DOMAIN log :
    /\ i < j /\ j < k
    /\ log[i].id = 1 /\ log[i].status = "processing"
    /\ log[j].id = 2 /\ log[j].status = "queued"
    /\ \E m \in (j + 1) .. (k - 1) : log[m].id = 1 /\ log[m].status \in Terminal
    /\ log[k].id = 2 /\ log[k].status = "processing"

StatusSteps ==
  {<<"queued", "processing">>, <<"processing", "processing">>,
   <<"processing", "completed">>, <<"processing", "failed">>}

\* C3: a job record only goes queued -> processing -> completed | failed,
\* and never leaves completed or failed, whatever the listeners do.
C3_StateMachine ==
  \A i \in JobIds :
    LET l == JobLog(i) IN
    /\ l # <<>> /\ l[1].status = "queued" /\ l[Len(l)] = jobs[i]
    /\ \A k \in 1 .. (Len(l) - 1) : <<l[k].status, l[k + 1].status>> \in StatusSteps

\* C4: every job created by enqueue reaches completed or failed in the end,
\* with no later enqueue needed. The service moves on its own only by a
\* pending processBundleFile call settling, so the claim requires that with
\* no such call pending no job is left short of completed or failed.
C4_Liveness ==
  active = {} => \A i \in JobIds : jobs[i].status \in Terminal

\* C5: the promise of enqueueAndWait for job J resolves only on a completed
\* broadcast of J, with its result, and rejects only on a failed broadcast
\* of J, with its error text.
C5_WaiterCorrect ==
  \A i \in JobIds :
    /\ promises[i].state = "resolved" =>
         \E k \in DOMAIN log :
           /\ log[k].id = i /\ log[k].status = "completed"
           /\ log[k].result = promises[i].result
    /\ promises[i].state = "rejected" =>
         \E k \in DOMAIN log :
           /\ log[k].id = i /\ log[k].status = "failed"
           /\ log[k].error = <<promises[i].message>>

\* C6: once its job is completed or failed, the promise of enqueueAndWait
\* is settled.
C6_NoLostWakeup ==
  \A i \in JobIds :
    promises[i].state = "pending" => jobs[i].status \notin Terminal

\* C7: between operations the registered waiter closures are exactly those
\* of the enqueueAndWait calls whose job is not yet completed or failed,
\* each once.
C7_NoListenerLeak ==
  \A i \in JobIds :
    Cardinality({k \in DOMAIN listeners : listeners[k] = Waiter(i)})
      = IF promises[i].state # "none" /\ jobs[i].status \notin Terminal
          THEN 1 ELSE 0

\* C8: progress is in 0..100, never decreases over a job's broadcasts, and
\* is 100 exactly when the status is completed.
C8_Progress ==
  \A i \in JobIds :
    LET l == JobLog(i) IN
    /\ \A k \in DOMAIN l :
         /\ l[k].progress \in 0 .. 100
         /\ (l[k].progress = 100) <=> (l[k].status = "completed")
    /\ \A k \in 1 .. (Len(l) - 1) : l[k].progress <= l[k + 1].progress
    /\ jobs[i].progress \in 0 .. 100
    /\ (jobs[i].progress = 100) <=> (jobs[i].status = "completed")

Exclusive(job) ==
  /\ job.status \in {"queued", "processing"} => job.result = <<>> /\ job.error = <<>>
  /\ job.status = "completed" => job.result # <<>> /\ job.error = <<>>
  /\ job.status = "failed" => job.error # <<>> /\ job.result = <<>>

\* C9: a queued or processing job has neither result nor error, a
\* completed job a result and no error, a failed job an error and no
\* result, in every stored record and every broadcast snapshot.
C9_Exclusive ==
  /\ \A i \in JobIds : Exclusive(jobs[i])
  /\ \A k \in DOMAIN log : Exclusive(log[k])

\* the step in which the processBundleFile call for job j fails
CollaboratorFails(j) ==
  /\ j \in active
  /\ j \notin active'
  /\ Len(log') > Len(log)
  /\ log'[Len(log) + 1].id = j
  /\ log'[Len(log) + 1].status = "failed"

C11_OutcomeFidelity ==
  \A i \in DOMAIN returned :
    IF returned[i].ok
      THEN jobs[i].status = "completed" /\ jobs[i].result = returned[i].config
      ELSE jobs[i].status = "failed" /\ jobs[i].error = <<returned[i].message>>

\* The states the operation run next can leave, with its record of the
\* listener calls made (heard): an enqueue, an enqueueAndWait, or the
\* continuation of processNext for a settled processBundleFile call.
NextRuns ==
  (IF Len(jobs) < MaxJobs
     THEN {Enqueue(State, input).s : input \in Inputs}
          \cup {EnqueueAndWait(State, input) : input \in Inputs}
     ELSE {})
  \cup UNION {{Resume(State, id, outcome) :
                 outcome \in processBundleFile(jobs[id].file, jobs[id].fileName)} :
              id \in active}

\* the calls made to listener l during run r, in order
HeardBy(r, l) == SelectSeq(r.heard, LAMBDA h : h.to = l)

\* how often l is in the listener array
Subscriptions(l) == Cardinality({i \in DOMAIN listeners : listeners[i] = l})

Rank(status) ==
  CASE status = "queued" -> 0 [] status = "processing" -> 1 [] OTHER -> 2

\* C12: a subscriber observes the statuses of one job in the order queued,
\* processing (once or more), one terminal status. Stated for the
\* broadcasts of one operation and a listener subscribed once: of two
\* snapshots of the same job it is called with, the later one is not of an
\* earlier status, and they are not both terminal.
C12_BroadcastOrder ==
  \A r \in NextRuns : \A l \in ExtListeners :
    Subscriptions(l) = 1 =>
      LET hs == HeardBy(r, l) IN
      \A a, b \in DOMAIN hs :
        (a < b /\ r.log[hs[a].at].id = r.log[hs[b].at].id) =>
          /\ Rank(r.log[hs[a].at].status) <= Rank(r.log[hs[b].at].status)
          /\ ~(r.log[hs[a].at].status \in Terminal
               /\ r.log[hs[b].at].status \in Terminal)

\* C13: every status change of a record is broadcast (the last snapshot
\* emitted for a job carries its stored status), and each broadcast of an
\* operation is received by a listener exactly as often as it is subscribed
\* when the operation starts: not at all once offUpdate removed it.
C13_Delivery ==
  /\ \A i \in JobIds :
       /\ JobLog(i) # <<>>
       /\ JobLog(i)[Len(JobLog(i))].status = jobs[i].status
  /\ \A r \in NextRuns : \A l \in ExtListeners :
       \A k \in (Len(log) + 1) .. Len(r.log) :
         Cardinality({n \in DOMAIN r.heard :
                        r.heard[n].to = l /\ r.heard[n].at = k}) = Subscriptions(l)

\* C14: a call to enqueue never fails, whatever the subscribed listeners
\* do: no enqueue call is left by an exception.
C14_EnqueueSucceeds == raised = {}

\* The ids enqueue has returned to its caller.
ReturnedIds == DOMAIN jobs \ raised

\* C15: getJob(id) is absent if and only if enqueue never returned id; no
\* record is ever removed, and a record that is completed or failed keeps
\* its status, its result and its error through every later operation.
C15_LookupRetention ==
  [][/\ \A id \in 1 .. (MaxJobs + 1) :
          (getJob(State, id) = <<>>)' <=> (id \notin ReturnedIds')
     /\ \A i \in DOMAIN jobs :
          /\ i \in DOMAIN jobs'
          /\ jobs[i].status \in Terminal =>
               /\ jobs'[i].status = jobs[i].status
               /\ jobs'[i].result = jobs[i].result
               /\ jobs'[i].error = jobs[i].error]_vars

\* C16: what a caller does to a job value it was handed never changes the
\* stored records: they change only in operations of the service, each of
\* which broadcasts what it changed.
C16_SnapshotIsolation == [][log' = log => jobs' = jobs]_vars

\* C17: between operations, a non-empty pending order means a drain is in
\* flight: the guard is set and some job is processing.
C17_NoStrandedJob ==
  queue # <<>> =>
    processing /\ \E i \in JobIds : jobs[i].status = "processing"

\* C19: a call to enqueue changes no field of a record that existed before
\* the call; with a job in flight it leaves the guard, the job in flight
\* and the pending processBundleFile call alone and only appends to the
\* pending order.
C19_EnqueueFrame ==
  [][Len(jobs') > Len(jobs) =>
       /\ \A i \in DOMAIN jobs : jobs'[i] = jobs[i]
       /\ processing =>
            /\ processing'
            /\ active' = active
            /\ calls' = calls
            /\ SubSeq(queue', 1, Len(queue)) = queue]_vars

NoDuplicates(seq) == \A a, b \in DOMAIN seq : a # b => seq[a] # seq[b]
Occurs(seq, x) == \E n \in DOMAIN seq : seq[n] = x

C20_PendingConsistent ==
  /\ \A n \in DOMAIN queue :
       queue[n] \in JobIds /\ jobs[queue[n]].status = "queued"
  /\ \A i \in JobIds : jobs[i].status = "queued" => Occurs(queue, i)
  /\ \A a, b \in DOMAIN queue : a < b => queue[a] < queue[b]
  /\ processing <=>
       Cardinality({i \in JobIds : jobs[i].status = "processing"}) = 1

\* One job is in flight and the job enqueued after it waits.
C20_Witness ==
  /\ queue = <<2>>
  /\ jobs[1].status = "processing"
  /\ jobs[2].status = "queued"
  /\ processing


=============================================================================
